---------------------------- MODULE Spec2Model ----------------------------
(***************************************************************************)
(* Model of plugin/track.py (class Track): one Track shared by caller      *)
(* threads that invoke stream() and end(), the metadata / track_uri        *)
(* callbacks that arrive on the network side, the fallback Timer, and the  *)
(* Stream objects the Track registers.  plugin/stream.py is not part of    *)
(* the sources at hand: the Stream side (open, buffer growth, 'buffered'   *)
(* event) is modelled from the specification's Stream handle contract.     *)
(***************************************************************************)
EXTENDS Integers, Sequences, FiniteSets, TLC

(* ------------------------------ constants ------------------------------ *)

\* Track.reuse_distance, Track.final_distance (bytes)
reuse_distance == 1048576
final_distance == 131072

\* Python's None as the end of an unbounded Range
None == -1

\* stream(None): the argument before it is normalised to Range(0, None)
NoneArg == <<-1, -1>>

(* ------------------------------- bounds -------------------------------- *)

\* caller threads
Threads == {"t1", "t2"}

\* number of stream() calls issued in a session
MaxStreamCalls == 2

\* wall clock (seconds); time.time() is positive
MaxClock == 2

\* ranges the concurrent callers ask for
RangeArgs == { NoneArg, <<0, None>>, <<4900000, None>> }

\* ranges a single caller asks for, one call after the other
SeqRangeArgs ==
    { NoneArg, <<0, None>>, <<2000000, None>>, <<4900000, None>>,
      <<0, 3000000>>, <<2000000, 2500000>> }

\* ranges asked for where the rate limits are examined: the whole track, its
\* first byte, a bounded range from 0, and a range near the end
ArbRangeArgs == { <<0, None>>, <<0, 0>>, <<0, 3000000>>, <<4900000, None>> }

\* what the collaborators deliver
TotalLengths == {5000000}          \* stream.total_length once opened
BufferLens == {0, 4000000}         \* len(stream.buffer)
Durations == {500}                 \* metadata.duration (ms)
Payloads == {"full", "nouri", "nolid"}   \* response['result'] of track_uri

VARIABLES
    metadata,       \* None or the track's duration      (self.metadata)
    metadata_ev,    \* BOOLEAN                           (self.metadata_ev)
    info,           \* "None" or a payload               (self.info)
    info_ev,        \* BOOLEAN                           (self.info_ev)
    setup_lock,     \* "free" or the holding thread      (self.setup_lock)
    stream_lock,    \* "free" or the holding thread      (self.stream_lock)
    streams,        \* range tuple -> Stream object id   (self.streams)
    objs,           \* Stream objects ever constructed, by id
    limit_timer,    \* 0 (None) or a Timer id            (self.limit_timer)
    timers,         \* Timer objects ever started: "pending", or "over" once
                    \* fired or cancelled
    reading_start,  \* 0 (None) or a clock value         (self.reading_start)
    playing,        \* self.playing
    ended,          \* self.ended
    now,            \* time.time()
    md_pending,     \* a metadata request is awaiting its callback
    md_requests,    \* number of server.sp.metadata() requests issued
    uri_reqs,       \* metadata.track_uri() requests issued, each with the
                    \* position of its callback: "pending" (not yet
                    \* answered), "event" (in on_start, Timer started), "done"
    track_events,   \* number of metadata.track_event(lid, 3, 0) notifications
    track_ends,     \* number of metadata.track_end() notifications
    pc,             \* per thread: where it stands
    arg,            \* per thread: r_range of the running stream() call
    path,           \* per thread: "none", "exact", "reuse", "create"
    ret,            \* per thread: the Stream the call is about to return
    result,         \* per thread: -1 no return yet, 0 None, else a Stream id
    calls,          \* stream() calls issued
    concurrent      \* the two threads' current / last stream() calls
                    \* overlapped in time and asked for the same range

vars == << metadata, metadata_ev, info, info_ev, setup_lock, stream_lock,
           streams, objs, limit_timer, timers, reading_start, playing, ended,
           now, md_pending, md_requests, uri_reqs, track_events, track_ends,
           pc, arg, path, ret, result, calls, concurrent >>

setupVars == << metadata, metadata_ev, info, info_ev, md_pending >>
lifeVars  == << reading_start, playing, ended, track_events, track_ends >>
timerVars == << limit_timer, timers >>
callVars  == << arg, path, ret, result, calls, concurrent >>

(* ------------------------------ helpers -------------------------------- *)

\* r_range = Range(0, None) when r_range is None
Normalise(r) == IF r = NoneArg THEN <<0, None>> ELSE r

\* "Ensure stream contains the range-start": the candidate is skipped when
\* s_start > r_range.start
ContainsStart(s_start, r_start) == ~(s_start > r_start)

\* the range-end test without its "both ends bounded" branch
ContainsEnd_SameEndOnly(s_end, r_end) == s_end = r_end

\* the range-end test by containment alone: an unbounded candidate serves
\* any request
ContainsEnd_Logical(s_end, r_end) ==
    \/ s_end = r_end
    \/ s_end = None
    \/ /\ r_end # None
       /\ s_end # None
       /\ ~(s_end < r_end)

\* "Ensure stream contains the range-end": the candidate is skipped when the
\* ends differ and either one is None, or s_end < r_range.end
ContainsEnd(s_end, r_end) ==
    \/ s_end = r_end
    \/ /\ r_end # None
       /\ s_end # None
       /\ ~(s_end < r_end)

\* buf_distance, end_distance
BufDistance(s, r) == (r[1] - s.range[1]) - s.buffer
EndDistance(s, r) == s.total_length - r[1]

\* the reuse heuristic with the second comparison turned round, and with
\* "or" for "and"
ShouldIgnore_TailFar(buf_distance, end_distance) ==
    buf_distance > reuse_distance /\ end_distance > final_distance
ShouldIgnore_Or(buf_distance, end_distance) ==
    buf_distance > reuse_distance \/ end_distance < final_distance

\* "Check if we should open a new stream": the candidate is ignored
ShouldIgnore(buf_distance, end_distance) ==
    buf_distance > reuse_distance /\ end_distance < final_distance

\* stream.on_open.wait(5) at its return: True iff the open signal is set
OpensInTime(s) == s.on_open

\* one pass of the for-loop body over candidate s for request r: the
\* candidate is returned
Acceptable(s, r) ==
    /\ ContainsStart(s.range[1], r[1])
    /\ ContainsEnd(s.range[2], r[2])
    /\ OpensInTime(s)
    /\ ~ShouldIgnore(BufDistance(s, r), EndDistance(s, r))

\* Stream(self, len(self.streams), r_range) as constructed
NewStream(index, r) ==
    [ index |-> index, range |-> r, state |-> "opening", on_open |-> FALSE,
      on_reading |-> TRUE, buffer |-> 0, total_length |-> 0, subs |-> 0 ]

\* the registry rebuilt around the new entry alone
Store_Fresh(ss, r, id) == [ k \in {r} |-> id ]

\* "Store stream": self.streams[r_range.tuple()] = stream
Store(ss, r, id) ==
    [ k \in DOMAIN ss \cup {r} |-> IF k = r THEN id ELSE ss[k] ]

\* "Validate stream info": not self.info or 'uri' not in self.info
InfoInvalid(i) == i = "None" \/ i = "nouri"

\* self.info['lid'] raises (TypeError on None, KeyError without 'lid')
LidFaults(i) == i = "None" \/ i = "nolid"

Other(t) == CHOOSE u \in Threads : u # t

\* the callers are interchangeable: the session's first stream() call is
\* taken to be this thread's
FirstCaller == "t1"

(* ------------------------------- Init ---------------------------------- *)

Init ==
    /\ metadata = None
    /\ metadata_ev = FALSE
    /\ info = "None"
    /\ info_ev = FALSE
    /\ setup_lock = "free"
    /\ stream_lock = "free"
    /\ streams = << >>
    /\ objs = << >>
    /\ limit_timer = 0
    /\ timers = << >>
    /\ reading_start = 0
    /\ playing = FALSE
    /\ ended = FALSE
    /\ now = 1
    /\ md_pending = FALSE
    /\ md_requests = 0
    /\ uri_reqs = << >>
    /\ track_events = 0
    /\ track_ends = 0
    /\ pc = [t \in Threads |-> "idle"]
    /\ arg = [t \in Threads |-> NoneArg]
    /\ path = [t \in Threads |-> "none"]
    /\ ret = [t \in Threads |-> 0]
    /\ result = [t \in Threads |-> -1]
    /\ calls = 0
    /\ concurrent = FALSE


(* --------------------------- Track.stream ------------------------------ *)

InStream(t) == pc[t] \notin {"idle", "end_emit"}

\* a caller thread invokes stream(a) and reaches "with self.stream_lock"
StreamCall(t, a) ==
    /\ pc[t] = "idle"
    /\ calls < MaxStreamCalls
    /\ t # FirstCaller => calls > 0
    /\ calls' = calls + 1
    /\ pc' = [pc EXCEPT ![t] = "lock"]
    /\ arg' = [arg EXCEPT ![t] = a]
    /\ result' = [result EXCEPT ![t] = -1]
    /\ concurrent' = (InStream(Other(t)) /\ Normalise(arg[Other(t)]) = Normalise(a))
    /\ UNCHANGED << setupVars, lifeVars, timerVars, setup_lock, stream_lock,
                    streams, objs, now, md_requests, uri_reqs, path, ret >>

\* the critical section, lines 104-164: the lock is taken, the range
\* normalised, then exact match, scan of the candidates (in the dict's
\* iteration order, which is any order) or creation.  Only the creation path
\* leaves the critical section (line 164); the other two go on to setup()
\* inside it.
Lookup(t) ==
    /\ pc[t] = "lock"
    /\ stream_lock = "free"
    /\ LET r == Normalise(arg[t]) IN
       /\ arg' = [arg EXCEPT ![t] = r]
       /\ IF r \in DOMAIN streams
          THEN /\ path' = [path EXCEPT ![t] = "exact"]
               /\ ret' = [ret EXCEPT ![t] = streams[r]]
               /\ stream_lock' = t
               /\ UNCHANGED << streams, objs >>
          ELSE LET acc == { k \in DOMAIN streams : Acceptable(objs[streams[k]], r) } IN
               IF acc # {}
               THEN /\ \E k \in acc :
                         ret' = [ret EXCEPT ![t] = streams[k]]
                    /\ path' = [path EXCEPT ![t] = "reuse"]
                    /\ stream_lock' = t
                    /\ UNCHANGED << streams, objs >>
               ELSE /\ objs' = Append(objs, NewStream(Cardinality(DOMAIN streams), r))
                    /\ streams' = Store(streams, r, Len(objs) + 1)
                    /\ ret' = [ret EXCEPT ![t] = Len(objs) + 1]
                    /\ path' = [path EXCEPT ![t] = "create"]
                    /\ stream_lock' = "free"
    /\ pc' = [pc EXCEPT ![t] = "setup"]
    /\ UNCHANGED << setupVars, lifeVars, timerVars, setup_lock, now,
                    md_requests, uri_reqs, result, calls, concurrent >>

(* ---------------------------- Track.setup ------------------------------ *)

\* a wait that only the event ends
EventWaitOver_Untimed(ev, timed) == ev

\* Event.wait(timeout) returns: the event is set, or the wait has a timeout
\* and it has run out
EventWaitOver(ev, timed) == ev \/ timed

\* the end of setup() in thread t: the setup lock is released; on the exact
\* and compatible paths stream() returns self.streams[...] (lines 115, 156)
\* and with it leaves the critical section; on the creation path it goes on
\* to the validation (line 169)
SetupReturns(t) ==
    /\ setup_lock' = "free"
    /\ IF path[t] = "create"
       THEN /\ pc' = [pc EXCEPT ![t] = "validate"]
            /\ UNCHANGED << stream_lock, result, path, ret, arg >>
       ELSE /\ pc' = [pc EXCEPT ![t] = "idle"]
            /\ stream_lock' = "free"
            /\ result' = [result EXCEPT ![t] = ret[t]]
            /\ path' = [path EXCEPT ![t] = "none"]
            /\ ret' = [ret EXCEPT ![t] = 0]
            /\ arg' = [arg EXCEPT ![t] = NoneArg]

\* lines 49-54: if self.info is None the stream info is requested and
\* awaited, else setup() is over
SetupInfo(t) ==
    IF info = "None"
    THEN /\ uri_reqs' = Append(uri_reqs, "pending")
         /\ pc' = [pc EXCEPT ![t] = "wait_info"]
         /\ UNCHANGED << stream_lock, result, path, ret, arg >>
    ELSE /\ SetupReturns(t)
         /\ UNCHANGED uri_reqs

\* with self.setup_lock: if self.metadata is None: request it and wait
SetupEnter(t) ==
    /\ pc[t] = "setup"
    /\ setup_lock = "free"
    /\ IF metadata = None
       THEN /\ setup_lock' = t
            /\ md_requests' = md_requests + 1
            /\ md_pending' = TRUE
            /\ pc' = [pc EXCEPT ![t] = "wait_md"]
            /\ UNCHANGED << uri_reqs, stream_lock, result, path, ret, arg >>
       ELSE /\ IF info = "None" THEN setup_lock' = t ELSE TRUE
            /\ SetupInfo(t)
            /\ UNCHANGED << md_requests, md_pending >>
    /\ UNCHANGED << metadata, metadata_ev, info, info_ev, lifeVars, timerVars,
                    streams, objs, now, calls, concurrent >>

\* self.metadata_ev.wait() returns (it has no timeout); then line 49
WaitMetadata(t) ==
    /\ pc[t] = "wait_md"
    /\ EventWaitOver(metadata_ev, FALSE)
    /\ IF info = "None" THEN UNCHANGED setup_lock ELSE TRUE
    /\ SetupInfo(t)
    /\ UNCHANGED << setupVars, lifeVars, timerVars, streams, objs, now,
                    md_requests, calls, concurrent >>

\* self.info_ev.wait(timeout=5) returns: at once when the event is set (it is
\* never cleared), else when it becomes set or the 5 seconds are over
WaitInfo(t) ==
    /\ pc[t] = "wait_info"
    /\ EventWaitOver(info_ev, TRUE)
    /\ SetupReturns(t)
    /\ UNCHANGED << setupVars, lifeVars, timerVars, streams, objs, now,
                    md_requests, uri_reqs, calls, concurrent >>

(* ---------------------- Track.stream, after setup ---------------------- *)

\* lines 169-171: "Validate stream info"
Validate(t) ==
    /\ pc[t] = "validate"
    /\ IF InfoInvalid(info)
       THEN /\ result' = [result EXCEPT ![t] = 0]
            /\ pc' = [pc EXCEPT ![t] = "idle"]
            /\ path' = [path EXCEPT ![t] = "none"]
            /\ ret' = [ret EXCEPT ![t] = 0]
            /\ arg' = [arg EXCEPT ![t] = NoneArg]
       ELSE /\ pc' = [pc EXCEPT ![t] = "limit_set"]
            /\ UNCHANGED << result, path, ret, arg >>
    /\ UNCHANGED << setupVars, lifeVars, timerVars, setup_lock, stream_lock,
                    streams, objs, now, md_requests, uri_reqs, calls,
                    concurrent >>

(* ---------------------------- rate limiting ---------------------------- *)

\* streams_active of limit_set
StreamsActive(ss, os) == { k \in DOMAIN ss : os[ss[k]].state = "reading" }

\* limit_set passes both of its early returns
LimitApplies(ss, os) ==
    /\ ~(Cardinality(DOMAIN ss) < 2)
    /\ ~(Cardinality(StreamsActive(ss, os)) < 1)

\* "if not start and not end": the range limit_set rate-limits
IsLimitedRange(start, end) == ~(start # 0) /\ ~(end # None /\ end # 0)

\* the Stream objects after limit_set()
LimitSetObjs(ss, os) ==
    IF ~LimitApplies(ss, os)
    THEN os
    ELSE [ i \in DOMAIN os |->
             IF \E k \in DOMAIN ss : ss[k] = i
             THEN IF IsLimitedRange(os[i].range[1], os[i].range[2])
                  THEN [os[i] EXCEPT !.on_reading = FALSE]
                  ELSE [os[i] EXCEPT !.subs = @ + 1]
             ELSE os[i] ]

\* the Stream objects after limit_reset(): every registered stream's
\* on_reading is set
LimitResetObjs(ss, os) ==
    [ i \in DOMAIN os |->
        IF \E k \in DOMAIN ss : ss[k] = i
        THEN [os[i] EXCEPT !.on_reading = TRUE]
        ELSE os[i] ]

\* self.limit_timer.cancel() on the Timer objects ts
CancelTimer(ts, lt) ==
    IF lt # 0 /\ ts[lt] = "pending" THEN [ts EXCEPT ![lt] = "over"] ELSE ts

\* ready of limit_buffered
LimitReady(ss, os) ==
    \A k \in DOMAIN ss : os[ss[k]].on_reading => os[ss[k]].state = "buffered"

\* lines 173-174: self.limit_set(); return stream
LimitSet(t) ==
    /\ pc[t] = "limit_set"
    /\ objs' = LimitSetObjs(streams, objs)
    /\ result' = [result EXCEPT ![t] = ret[t]]
    /\ pc' = [pc EXCEPT ![t] = "idle"]
    /\ path' = [path EXCEPT ![t] = "none"]
    /\ ret' = [ret EXCEPT ![t] = 0]
    /\ arg' = [arg EXCEPT ![t] = NoneArg]
    /\ UNCHANGED << setupVars, lifeVars, timerVars, setup_lock, stream_lock,
                    streams, now, md_requests, uri_reqs, calls, concurrent >>

\* the fallback Timer expires and runs limit_reset()
TimerFire(i) ==
    /\ timers[i] = "pending"
    /\ timers' = CancelTimer([timers EXCEPT ![i] = "over"], limit_timer)
    /\ limit_timer' = 0
    /\ objs' = LimitResetObjs(streams, objs)
    /\ UNCHANGED << setupVars, lifeVars, callVars, setup_lock, stream_lock,
                    streams, now, md_requests, uri_reqs, pc >>

(* ------------------------------ callbacks ------------------------------ *)

\* on_metadata: the metadata request is answered
OnMetadata(d) ==
    /\ md_pending
    /\ md_pending' = FALSE
    /\ metadata' = d
    /\ metadata_ev' = TRUE
    /\ UNCHANGED << info, info_ev, lifeVars, timerVars, callVars, setup_lock,
                    stream_lock, streams, objs, now, md_requests, uri_reqs, pc >>

\* on_track_uri, lines 82-89, and on_start up to the start of the Timer,
\* lines 233-240: request i is answered with payload p (at any time, also
\* after the caller's 5 second wait is over)
OnTrackUri(i, p) ==
    /\ uri_reqs[i] = "pending"
    /\ info' = p
    /\ info_ev' = TRUE
    /\ IF playing
       THEN /\ uri_reqs' = [uri_reqs EXCEPT ![i] = "done"]
            /\ UNCHANGED timerVars
       ELSE /\ timers' = Append(timers, "pending")
            /\ limit_timer' = Len(timers) + 1
            /\ uri_reqs' = [uri_reqs EXCEPT ![i] = "event"]
    /\ UNCHANGED << metadata, metadata_ev, md_pending, lifeVars, callVars,
                    setup_lock, stream_lock, streams, objs, now, md_requests,
                    pc >>

\* on_track_error: request i fails
OnTrackError(i) ==
    /\ uri_reqs[i] = "pending"
    /\ info' = "None"
    /\ info_ev' = TRUE
    /\ uri_reqs' = [uri_reqs EXCEPT ![i] = "done"]
    /\ UNCHANGED << metadata, metadata_ev, md_pending, lifeVars, timerVars,
                    callVars, setup_lock, stream_lock, streams, objs, now,
                    md_requests, pc >>

\* on_start, lines 243-246: track_event(self.info['lid'], 3, 0), then
\* reading_start and playing; the lookup of 'lid' may raise
OnStartEvent(i) ==
    /\ uri_reqs[i] = "event"
    /\ IF LidFaults(info)
       THEN /\ uri_reqs' = [uri_reqs EXCEPT ![i] = "done"]
            /\ UNCHANGED lifeVars
       ELSE /\ track_events' = track_events + 1
            /\ reading_start' = now
            /\ playing' = TRUE
            /\ uri_reqs' = [uri_reqs EXCEPT ![i] = "done"]
            /\ UNCHANGED << ended, track_ends >>
    /\ UNCHANGED << setupVars, timerVars, callVars, setup_lock, stream_lock,
                    streams, objs, now, md_requests, pc >>

(* ----------------------- Track.position, Track.end --------------------- *)

\* self.metadata.duration raises AttributeError on a None metadata
PositionFaults == metadata = None

\* the value of the property position (when it does not fault)
Position ==
    LET position == IF reading_start # 0 THEN (now - reading_start) * 1000 ELSE 0 IN
    IF position > metadata THEN metadata ELSE position

\* end(), lines 267-269: the check; an invalid call only logs a warning
EndCheck(t) ==
    /\ pc[t] = "idle"
    /\ pc' = [pc EXCEPT ![t] = IF ~playing \/ ended THEN "idle" ELSE "end_emit"]
    /\ UNCHANGED << setupVars, lifeVars, timerVars, callVars, setup_lock,
                    stream_lock, streams, objs, now, md_requests, uri_reqs >>

\* end(), lines 271-274: track_end(self.info['lid'], self.position), ended
EndEmit(t) ==
    /\ pc[t] = "end_emit"
    /\ pc' = [pc EXCEPT ![t] = "idle"]
    /\ IF LidFaults(info)
       THEN UNCHANGED lifeVars
       ELSE /\ track_ends' = track_ends + 1
            /\ ended' = TRUE
            /\ UNCHANGED << reading_start, playing, track_events >>
    /\ UNCHANGED << setupVars, timerVars, callVars, setup_lock, stream_lock,
                    streams, objs, now, md_requests, uri_reqs >>

\* time passes; the clock is followed from the start of playback on, the
\* only point from which position depends on it
Tick ==
    /\ reading_start # 0
    /\ now < MaxClock
    /\ now' = now + 1
    /\ UNCHANGED << setupVars, lifeVars, timerVars, callVars, setup_lock,
                    stream_lock, streams, objs, md_requests, uri_reqs, pc >>

(* ------------------------- the Stream objects -------------------------- *)

\* the stream opens: its open signal is set, its length known, it reads
StreamOpen(i, len) ==
    /\ objs[i].state = "opening"
    /\ objs' = [objs EXCEPT ![i] = [@ EXCEPT !.state = "reading",
                                              !.on_open = TRUE,
                                              !.total_length = len]]
    /\ UNCHANGED << setupVars, lifeVars, timerVars, callVars, setup_lock,
                    stream_lock, streams, now, md_requests, uri_reqs, pc >>

\* a reading stream that holds the read permission extends its buffer
StreamRead(i, len) ==
    /\ objs[i].state = "reading"
    /\ objs[i].on_reading
    /\ len > objs[i].buffer
    /\ objs' = [objs EXCEPT ![i] = [@ EXCEPT !.buffer = len]]
    /\ UNCHANGED << setupVars, lifeVars, timerVars, callVars, setup_lock,
                    stream_lock, streams, now, md_requests, uri_reqs, pc >>

\* a reading stream has buffered its data, enters 'buffered' and emits the
\* event: the handlers subscribed with once('buffered', self.limit_buffered)
\* run and are dropped
StreamBuffered(i) ==
    /\ objs[i].state = "reading"
    /\ \A len \in BufferLens : objs[i].buffer >= len
    /\ LET os == [objs EXCEPT ![i] = [@ EXCEPT !.state = "buffered", !.subs = 0]] IN
       IF objs[i].subs > 0 /\ LimitReady(streams, os)
       THEN /\ objs' = LimitResetObjs(streams, os)
            /\ timers' = CancelTimer(timers, limit_timer)
            /\ limit_timer' = 0
       ELSE /\ objs' = os
            /\ UNCHANGED timerVars
    /\ UNCHANGED << setupVars, lifeVars, callVars, setup_lock, stream_lock,
                    streams, now, md_requests, uri_reqs, pc >>

(* ------------------------------- Next ---------------------------------- *)

Next ==
    \/ \E t \in Threads, a \in RangeArgs : StreamCall(t, a)
    \/ \E t \in Threads : Lookup(t)
    \/ \E t \in Threads : SetupEnter(t)
    \/ \E t \in Threads : WaitMetadata(t)
    \/ \E t \in Threads : WaitInfo(t)
    \/ \E t \in Threads : Validate(t)
    \/ \E t \in Threads : LimitSet(t)
    \/ \E t \in Threads : EndCheck(t)
    \/ \E t \in Threads : EndEmit(t)
    \/ \E d \in Durations : OnMetadata(d)
    \/ \E i \in DOMAIN uri_reqs, p \in Payloads : OnTrackUri(i, p)
    \/ \E i \in DOMAIN uri_reqs : OnTrackError(i)
    \/ \E i \in DOMAIN uri_reqs : OnStartEvent(i)
    \/ \E i \in DOMAIN timers : TimerFire(i)
    \/ \E i \in DOMAIN objs, len \in TotalLengths : StreamOpen(i, len)
    \/ \E i \in DOMAIN objs, len \in BufferLens : StreamRead(i, len)
    \/ \E i \in DOMAIN objs : StreamBuffered(i)
    \/ Tick

Spec == Init /\ [][Next]_vars

(***************************************************************************)
(* One caller issuing its stream() calls one after the other, over the     *)
(* wider set of ranges.  Beside the caller's steps it has the actions that *)
(* write what the critical section of stream() and its validation read:    *)
(* the metadata and the stream info (answered in full, or failing, or not  *)
(* at all), the open signal, length and buffer of the streams, and the     *)
(* reading gate that lets a stream extend its buffer (cleared by           *)
(* limit_set(), set again when the Timer fires).  The rest of on_start,    *)
(* the 'buffered' event, end() and the clock write none of these.          *)
(***************************************************************************)
SeqNext ==
    \/ \E a \in SeqRangeArgs : StreamCall(FirstCaller, a)
    \/ Lookup(FirstCaller)
    \/ SetupEnter(FirstCaller)
    \/ WaitMetadata(FirstCaller)
    \/ WaitInfo(FirstCaller)
    \/ Validate(FirstCaller)
    \/ LimitSet(FirstCaller)
    \/ \E d \in Durations : OnMetadata(d)
    \/ \E i \in DOMAIN uri_reqs : OnTrackUri(i, "full")
    \/ \E i \in DOMAIN uri_reqs : OnTrackError(i)
    \/ \E i \in DOMAIN timers : TimerFire(i)
    \/ \E i \in DOMAIN objs, len \in TotalLengths : StreamOpen(i, len)
    \/ \E i \in DOMAIN objs, len \in BufferLens : StreamRead(i, len)

SeqSpec == Init /\ [][SeqNext]_vars

(***************************************************************************)
(* The concurrent callers of stream() with what their calls read or wait   *)
(* for: the metadata and the stream info (any payload, a failure, or no    *)
(* answer), the Streams' open signal, length and buffer, and the reading   *)
(* gate (cleared by limit_set(), set again when the Timer fires).  As in   *)
(* SeqNext, the rest of on_start, the 'buffered' event, end() and the      *)
(* clock are left out: they write nothing stream() reads.                  *)
(***************************************************************************)
ConNext ==
    \/ \E t \in Threads, a \in RangeArgs : StreamCall(t, a)
    \/ \E t \in Threads : Lookup(t)
    \/ \E t \in Threads : SetupEnter(t)
    \/ \E t \in Threads : WaitMetadata(t)
    \/ \E t \in Threads : WaitInfo(t)
    \/ \E t \in Threads : Validate(t)
    \/ \E t \in Threads : LimitSet(t)
    \/ \E d \in Durations : OnMetadata(d)
    \/ \E i \in DOMAIN uri_reqs, p \in Payloads : OnTrackUri(i, p)
    \/ \E i \in DOMAIN uri_reqs : OnTrackError(i)
    \/ \E i \in DOMAIN timers : TimerFire(i)
    \/ \E i \in DOMAIN objs, len \in TotalLengths : StreamOpen(i, len)
    \/ \E i \in DOMAIN objs, len \in BufferLens : StreamRead(i, len)

ConSpec == Init /\ [][ConNext]_vars

(***************************************************************************)
(* One caller, the ranges of ArbRangeArgs, and the whole of the rate       *)
(* limiting: limit_set() at the end of stream(), the 'buffered' events,    *)
(* the Timer, playback start.                                              *)
(***************************************************************************)
ArbNext ==
    \/ \E a \in ArbRangeArgs : StreamCall(FirstCaller, a)
    \/ Lookup(FirstCaller)
    \/ SetupEnter(FirstCaller)
    \/ WaitMetadata(FirstCaller)
    \/ WaitInfo(FirstCaller)
    \/ Validate(FirstCaller)
    \/ LimitSet(FirstCaller)
    \/ \E d \in Durations : OnMetadata(d)
    \/ \E i \in DOMAIN uri_reqs : OnTrackUri(i, "full")
    \/ \E i \in DOMAIN uri_reqs : OnTrackError(i)
    \/ \E i \in DOMAIN uri_reqs : OnStartEvent(i)
    \/ \E i \in DOMAIN timers : TimerFire(i)
    \/ \E i \in DOMAIN objs, len \in TotalLengths : StreamOpen(i, len)
    \/ \E i \in DOMAIN objs, len \in BufferLens : StreamRead(i, len)
    \/ \E i \in DOMAIN objs : StreamBuffered(i)

ArbSpec == Init /\ [][ArbNext]_vars

\* the steps thread t takes by itself inside stream()
ThreadStep(t) ==
    \/ Lookup(t)
    \/ SetupEnter(t)
    \/ WaitMetadata(t)
    \/ WaitInfo(t)
    \/ Validate(t)
    \/ LimitSet(t)

(***************************************************************************)
(* The concurrent callers with what decides whether a stream() call        *)
(* returns: the locks, the metadata and info signals, and, for the path    *)
(* the call takes, the Streams' open signal and buffer.                    *)
(***************************************************************************)
LiveNext ==
    \/ \E t \in Threads, a \in RangeArgs : StreamCall(t, a)
    \/ \E t \in Threads : ThreadStep(t)
    \/ \E d \in Durations : OnMetadata(d)
    \/ \E i \in DOMAIN uri_reqs, p \in Payloads : OnTrackUri(i, p)
    \/ \E i \in DOMAIN uri_reqs : OnTrackError(i)
    \/ \E i \in DOMAIN objs, len \in TotalLengths : StreamOpen(i, len)
    \/ \E i \in DOMAIN objs, len \in BufferLens : StreamRead(i, len)

(***************************************************************************)
(* LiveNext under the scheduling the code relies on: a thread that can     *)
(* take a step of stream() eventually takes it, and an issued metadata     *)
(* request is eventually answered.  Nothing is assumed of the track_uri    *)
(* resolver (its wait has a timeout) nor of the Streams.                   *)
(***************************************************************************)
LiveSpec ==
    /\ Init
    /\ [][LiveNext]_vars
    /\ \A t \in Threads : WF_vars(ThreadStep(t))
    /\ WF_vars(\E d \in Durations : OnMetadata(d))

(* ------------------------------ properties ----------------------------- *)

AllIdle == \A t \in Threads : pc[t] = "idle"

Registered == { streams[k] : k \in DOMAIN streams }

\* thread t's step is the critical section of stream() (Lookup)
LookupStep(t) == pc[t] = "lock" /\ pc'[t] = "setup"

\* thread t's step is the one in which stream() returns
ReturnStep(t) == InStream(t) /\ pc'[t] = "idle"

\* thread t's step is the one in which setup() returns and stream() returns
\* with it (lines 113-115, 154-156)
SetupReturnStep(t) == pc[t] \in {"setup", "wait_md", "wait_info"} /\ pc'[t] = "idle"

\* C1: two stream() calls for the same range that overlapped in time have
\* returned the same Stream handle (the registry, a dict keyed by the range,
\* cannot hold two entries for one range).
C1_SameHandle ==
    ( /\ concurrent
      /\ AllIdle
      /\ \A t \in Threads : result[t] # -1 )
    => \A t, u \in Threads : result[t] = result[u]

\* C2: whatever the callers and the outcome of the resolution, the metadata
\* request is issued at most once and the track_uri request at most once
\* (and each once, as soon as one setup() is through).
C2_ExactlyOnce ==
    /\ md_requests <= 1
    /\ Len(uri_reqs) <= 1
    /\ (\E t \in Threads : result[t] # -1) => md_requests = 1 /\ Len(uri_reqs) = 1

\* C3: on the paths where stream() returns as setup() returns (exact match,
\* compatible match), it returns None whenever the stream info is absent or
\* lacks 'uri' at that time.
C3_AbsentMeansNone ==
    [][ \A t \in Threads :
          (SetupReturnStep(t) /\ (info = "None" \/ info = "nouri"))
          => result'[t] = 0 ]_vars

\* C4: a reading gate that limit_set() has cleared is set again without any
\* 'buffered' event: whenever a registered stream's gate is cleared, a
\* fallback Timer is pending, or one is still to be started (Timers are
\* started only while playing is false).
C4_ClearedGateHasTimer ==
    (\E i \in Registered : ~objs[i].on_reading)
    => \/ \E j \in DOMAIN timers : timers[j] = "pending"
       \/ ~playing

\* C5: once two registered streams are 'reading' and the whole-track stream
\* (0, None) is registered, that stream's gate is cleared: stated for the
\* states in which the track is playing, every caller's last stream() call
\* has returned a Stream (no limit_set() is still to come) and
\* limit_reset() has not run (no Timer has fired or been cancelled, no
\* stream has emitted 'buffered').
C5_TwoReadingLimits ==
    ( /\ AllIdle
      /\ playing
      /\ \A t \in Threads : result[t] > 0
      /\ <<0, None>> \in DOMAIN streams
      /\ Cardinality({ i \in Registered : objs[i].state = "reading" }) >= 2
      /\ \A j \in DOMAIN timers : timers[j] = "pending"
      /\ \A i \in DOMAIN objs : objs[i].state # "buffered" )
    => ~objs[streams[<<0, None>>]].on_reading

\* C6: over any interleaving of end() calls at most one 'ended'
\* notification (metadata.track_end) is emitted.
C6_EndOnce == track_ends <= 1

\* C7: when r is no registry key and every candidate that passes the
\* containment tests and has opened has bufferGap > 1,048,576 and
\* tailDistance < 131,072, stream(r) creates a new Stream, the registry
\* grows by one, and the call returns that Stream or None, never an
\* existing one.
C7_FarFromBufferNearEnd ==
    [][ \A t \in Threads :
          /\ ( /\ LookupStep(t)
               /\ Normalise(arg[t]) \notin DOMAIN streams
               /\ \A i \in Registered :
                     ( /\ ContainsStart(objs[i].range[1], Normalise(arg[t])[1])
                       /\ ContainsEnd(objs[i].range[2], Normalise(arg[t])[2])
                       /\ objs[i].on_open )
                     => /\ (Normalise(arg[t])[1] - objs[i].range[1]) - objs[i].buffer > 1048576
                        /\ objs[i].total_length - Normalise(arg[t])[1] < 131072 )
             => /\ path'[t] = "create"
                /\ DOMAIN streams' = DOMAIN streams \cup {Normalise(arg[t])}
                /\ Cardinality(DOMAIN streams') = Cardinality(DOMAIN streams) + 1
                /\ ret'[t] = streams'[Normalise(arg[t])]
                /\ ret'[t] \notin Registered
          /\ (ReturnStep(t) /\ path[t] = "create")
             => result'[t] \in {0, ret[t]} ]_vars

\* C7, its case: a call is on the creation path although a registered
\* candidate contains its range and has opened, the candidate's buffer being
\* more than 1 MiB away and the range less than 128 KiB from the end
C7_Witness ==
    \E t \in Threads :
       /\ pc[t] = "setup"
       /\ path[t] = "create"
       /\ \E i \in Registered \ {ret[t]} :
             /\ objs[i].range[1] <= arg[t][1]
             /\ objs[i].range[2] = arg[t][2]
             /\ objs[i].on_open
             /\ (arg[t][1] - objs[i].range[1]) - objs[i].buffer > 1048576
             /\ objs[i].total_length - arg[t][1] < 131072

\* C8: when r is no registry key and some registered candidate starts no
\* later than r, has the same end or (both ends bounded) an end >= r's, has
\* opened, and is not both more than 1,048,576 bytes of buffer away and less
\* than 131,072 bytes from the end, stream(r) returns an already registered
\* stream and the registry gains no entry.
C8_CompatibleIsReused ==
    [][ \A t \in Threads :
          /\ ( /\ LookupStep(t)
               /\ Normalise(arg[t]) \notin DOMAIN streams
               /\ \E i \in Registered :
                     /\ objs[i].range[1] <= Normalise(arg[t])[1]
                     /\ \/ objs[i].range[2] = Normalise(arg[t])[2]
                        \/ /\ objs[i].range[2] # None
                           /\ Normalise(arg[t])[2] # None
                           /\ objs[i].range[2] >= Normalise(arg[t])[2]
                     /\ objs[i].on_open
                     /\ ~( /\ (Normalise(arg[t])[1] - objs[i].range[1]) - objs[i].buffer > 1048576
                           /\ objs[i].total_length - Normalise(arg[t])[1] < 131072 ) )
             => /\ path'[t] = "reuse"
                /\ ret'[t] \in Registered
                /\ streams' = streams
                /\ objs' = objs
          /\ (ReturnStep(t) /\ path[t] = "reuse")
             => /\ result'[t] = ret[t]
                /\ result'[t] \in Registered
                /\ streams' = streams ]_vars

\* C8, its case: a call is on the compatible path with a candidate whose
\* (bounded) end differs from the request's
C8_Witness ==
    \E t \in Threads :
       /\ pc[t] = "setup"
       /\ path[t] = "reuse"
       /\ arg[t] \notin DOMAIN streams
       /\ objs[ret[t]].range[2] # arg[t][2]
       /\ objs[ret[t]].range[2] >= arg[t][2]

\* the situation of C9 as thread t enters the critical section: the only
\* registered stream is that of Range(0, None), opened, 5,000,000 bytes
\* long, nothing buffered, and the request is Range(2000000, None)
C9_Situation(t) ==
    /\ arg[t] = <<2000000, None>>
    /\ DOMAIN streams = {<<0, None>>}
    /\ objs[streams[<<0, None>>]].on_open
    /\ objs[streams[<<0, None>>]].total_length = 5000000
    /\ objs[streams[<<0, None>>]].buffer = 0

\* C9 as stated: in that situation the second request creates a new stream,
\* leaving two registry entries.
C9_SecondRequestCreates ==
    [][ \A t \in Threads :
          (LookupStep(t) /\ C9_Situation(t))
          => /\ path'[t] = "create"
             /\ Cardinality(DOMAIN streams') = 2 ]_vars

\* C9 as amended: in that situation the second request is served by the
\* stream of Range(0, None) (the gap exceeds 1 MiB, but the range is not
\* within 128 KiB of the end), and the registry keeps its single entry.
C9_SecondRequestReuses ==
    [][ \A t \in Threads :
          /\ (LookupStep(t) /\ C9_Situation(t))
             => /\ path'[t] = "reuse"
                /\ ret'[t] = streams[<<0, None>>]
                /\ streams' = streams
          /\ (ReturnStep(t) /\ path[t] = "reuse")
             => result'[t] = ret[t] ]_vars

\* C9, its case: the second request went through the critical section in
\* the situation of the example
C9_Witness ==
    \E t \in Threads :
       /\ pc[t] = "setup"
       /\ path[t] # "none"
       /\ C9_Situation(t)

\* C10: in every state position yields a value without faulting, 0 while
\* playback has not started, and never more than metadata.duration.
C10_PositionSafe ==
    /\ ~PositionFaults
    /\ ~playing => Position = 0
    /\ Position <= metadata

\* thread t is blocked inside setup(): waiting for the setup lock, for
\* metadata_ev, or for info_ev
BlockedInSetup(t) ==
    \/ pc[t] = "setup" /\ setup_lock # "free"
    \/ pc[t] \in {"wait_md", "wait_info"}

\* C11: no thread is blocked inside setup() (on the setup lock, the metadata
\* signal or the info signal) while it holds stream_lock.
C11_NoWaitUnderStreamLock ==
    \A t \in Threads : BlockedInSetup(t) => stream_lock # t


\* the caller's wait for request i is over (info_ev.wait(timeout=5) has
\* returned) and the request is still unanswered: the thread in the wait,
\* which holds the setup lock, waits for the request issued last
WaitOver(i) ==
    /\ uri_reqs[i] = "pending"
    /\ ~(i = Len(uri_reqs) /\ \E t \in Threads : pc[t] = "wait_info")

\* the step is the resolver's answer to request i (on_track_uri or
\* on_track_error runs)
AnswerStep(i) == uri_reqs[i] = "pending" /\ uri_reqs'[i] # "pending"

\* C12: when a resolution attempt ends in an error, after the caller's wait
\* is over, or with a payload that lacks 'uri' or 'lid', its callback does
\* not go into playback-start handling: no Timer is started, and the
\* callback is over without reaching the 'started' notification.
C12_NoStartForFailedAttempt ==
    [][ \A i \in DOMAIN uri_reqs :
          ( /\ AnswerStep(i)
            /\ \/ info' = "None"
               \/ InfoInvalid(info')
               \/ LidFaults(info')
               \/ WaitOver(i) )
          => /\ uri_reqs'[i] = "done"
             /\ timers' = timers
             /\ limit_timer' = limit_timer ]_vars


\* C13: over any interleaving of stream() calls a registry entry, once
\* present, stays and stays bound to the same Stream: no step removes a key
\* of self.streams or changes the Stream it maps to.
C13_RegistryMonotone ==
    [][ \A k \in DOMAIN streams :
          /\ k \in DOMAIN streams'
          /\ streams'[k] = streams[k] ]_vars

\* C13, its case: a second entry has been stored beside the first, both
\* calls are over, and each range is bound to the Stream created for it
C13_Witness ==
    /\ AllIdle
    /\ \E k1, k2 \in DOMAIN streams :
          /\ k1 # k2
          /\ streams[k1] = 1 /\ objs[1].range = k1
          /\ streams[k2] = 2 /\ objs[2].range = k2


\* both ends unbounded, or both bounded
SameOpenness(s_end, r_end) == (s_end = None) <=> (r_end = None)

\* C14: the compatible-match scan never selects, and stream() never returns
\* through it, a candidate whose end differs in open-ness from the
\* request's (one None, the other bounded).
C14_OpennessNeverMixed ==
    [][ \A t \in Threads :
          /\ (LookupStep(t) /\ path'[t] = "reuse")
             => SameOpenness(objs[ret'[t]].range[2], Normalise(arg[t])[2])
          /\ (ReturnStep(t) /\ path[t] = "reuse")
             => /\ result'[t] = ret[t]
                /\ SameOpenness(objs[result'[t]].range[2], arg[t][2]) ]_vars

\* C14, its case: a bounded request has been given a new Stream although an
\* unbounded registered candidate starts no later, has opened and is not
\* ignored by the distance heuristic
C14_Witness ==
    \E t \in Threads :
       /\ pc[t] = "setup"
       /\ path[t] = "create"
       /\ arg[t][2] # None
       /\ \E i \in Registered \ {ret[t]} :
             /\ objs[i].range[2] = None
             /\ objs[i].range[1] <= arg[t][1]
             /\ objs[i].on_open
             /\ ~ShouldIgnore(BufDistance(objs[i], arg[t]), EndDistance(objs[i], arg[t]))


\* thread t's step is limit_set() at the end of stream() (lines 173-174)
LimitSetStep(t) == pc[t] = "limit_set" /\ pc'[t] = "idle"

\* C15: limit_set() changes no Stream (no gate, no subscription) when fewer
\* than two streams are registered or none is 'reading'; otherwise it clears
\* the gate of the registered streams of range (0, None) and leaves the gate
\* of every other stream as it was, bounded ranges from 0 included.
C15_LimitSetFrame ==
    [][ \A t \in Threads :
          LimitSetStep(t)
          => IF \/ Cardinality(DOMAIN streams) < 2
                \/ \A i \in Registered : objs[i].state # "reading"
             THEN objs' = objs
             ELSE \A i \in DOMAIN objs :
                    IF i \in Registered /\ objs[i].range = <<0, None>>
                    THEN ~objs'[i].on_reading
                    ELSE objs'[i].on_reading = objs[i].on_reading ]_vars


\* the step sets the gate of a registered stream that was cleared
GateSetStep == \E i \in Registered : ~objs[i].on_reading /\ objs'[i].on_reading

\* the step is Stream i's 'buffered' event
BufferedStep(i) == objs[i].state = "reading" /\ objs'[i].state = "buffered"

\* the step is the expiry of a Timer (no Stream changes its state, a pending
\* Timer is over)
TimerExpiryStep ==
    /\ \A i \in DOMAIN objs : objs'[i].state = objs[i].state
    /\ \E j \in DOMAIN timers : timers[j] = "pending" /\ timers'[j] = "over"

\* at Stream i's 'buffered' event every registered stream whose gate is set
\* has state 'buffered'
ReadyAt(i) ==
    \A k \in Registered : objs[k].on_reading => (k = i \/ objs[k].state = "buffered")

\* C16: a cleared gate is set again only by limit_reset(), run from a Timer
\* expiry or from limit_buffered() at a 'buffered' event at which every
\* gated-open stream is 'buffered'; limit_reset() leaves every registered
\* gate set, and when it runs from limit_buffered() no fallback Timer is
\* left pending.
C16_GateSetOnlyByReset ==
    [][ /\ GateSetStep
           => /\ \A k \in Registered : objs'[k].on_reading
              /\ \/ TimerExpiryStep
                 \/ \E i \in DOMAIN objs : BufferedStep(i) /\ ReadyAt(i)
        /\ \A i \in DOMAIN objs :
             (BufferedStep(i) /\ objs[i].subs > 0 /\ ReadyAt(i))
             => /\ \A k \in Registered : objs'[k].on_reading
                /\ \A j \in DOMAIN timers : timers'[j] # "pending" ]_vars


\* the Timers started and neither fired nor cancelled
PendingTimers == { j \in DOMAIN timers : timers[j] = "pending" }

\* C17: in every state at most one fallback Timer is pending.
C17_OnePendingTimer == Cardinality(PendingTimers) <= 1

\* C18: once self.info holds a value it is never overwritten and never
\* reverts to None, and whenever playing is true the info with its 'lid' is
\* there for end().
C18_InfoSetOnce ==
    [][ /\ info # "None" => info' = info
        /\ playing' => ~LidFaults(info') ]_vars

C20_EveryCallReturns ==
    \A t \in Threads : InStream(t) ~> (pc[t] = "idle")

\* C20, its case: a caller that holds stream_lock waits for the setup lock,
\* which the other caller holds while it waits for a signal
C20_Witness ==
    \E t \in Threads :
       /\ pc[t] = "setup"
       /\ stream_lock = t
       /\ setup_lock = Other(t)
       /\ pc[Other(t)] \in {"wait_md", "wait_info"}


=============================================================================
